---- MODULE Spec2Model ----
(***************************************************************************)
(* Model of src/src/renderer/Renderer.h: the accumulation buffer           *)
(* (RenderOutput), the shared work counter (ThreadControl), the radical    *)
(* inverse sampler and the bucket scheduler (renderThreadFunction) with    *)
(* the per-pixel evaluation (render) it calls.                             *)
(*                                                                         *)
(* Radiance, normals and albedos are floating-point vectors in the source; *)
(* here each channel is a natural number of abstract radiance units, so    *)
(* that '+=' is integer addition and a lost update shows as a wrong sum.   *)
(***************************************************************************)
EXTENDS Integers, Naturals, Sequences, FiniteSets, Bags, TLC

\* ------------------------------------------------------------------------
\* Bounds of the model
\* ------------------------------------------------------------------------
\* Largest pass count of one invocation, and of all invocations between clears.
MaxPasses == 2
\* Bucket edge used by the concurrent specification in place of the
\* source's 32, so that an image of a few pixels has several buckets and a
\* clipped right/bottom bucket.  The scheduler arithmetic is the source's,
\* with the edge as its parameter.
ScaledBucket == 2
\* Largest value an entry of a freshly constructed (never cleared) buffer holds.
MaxGarbage == 1
\* Pass indices 0 .. MaxIndex are tried for RadicalInverse besides the large ones.
MaxIndex == 8

\* ------------------------------------------------------------------------
\* Program constants
\* ------------------------------------------------------------------------
bucket_size == 32
num_primes == 6
primes == <<2, 3, 5, 7, 11, 13>>
\* std::numeric_limits<int>::max() for the 32-bit int of the source
INT_MAX == 2147483647
\* 2^16, the limb used to compute 32-bit products without leaving 32 bits
Limb == 65536
HalfLimb == 32768

VARIABLES
    xres, yres,      \* RenderOutput::xres, yres (const)
    passes,          \* RenderOutput::passes
    beauty, normal, albedo,   \* RenderOutput's three pixel arrays
    bsz,             \* the bucket edge in force (bucket_size of renderThreadFunction)
    num_threads,     \* number of worker threads the caller launches
    scene,           \* the scene handed to every worker
    phase,           \* "idle": no invocation running; "running": workers launched
    num_passes,      \* ThreadControl::num_passes
    next_bucket,     \* ThreadControl::next_bucket
    frame, base_pass, frames,  \* arguments of renderThreadFunction
    th,              \* per worker: position and locals of renderThreadFunction/render
    claimed,         \* history: the indices returned by fetch_add, in order
    calls,           \* history: bag of <<x, y, pass>> render was invoked with
    draws,           \* history: set of <<x, y, pass, k, sample>> sampler draws made
    before,          \* history: the three arrays when the invocation started
    rendered,        \* history: per pixel, the render calls completed since the last clear
    cleared,         \* history: clear() was the last operation on the buffer
    ri,              \* RadicalInverse: the locals of one call
    pt               \* render: the locals of one call traced step by step

vars == <<xres, yres, passes, beauty, normal, albedo, bsz, num_threads, scene,
          phase, num_passes, next_bucket, frame, base_pass, frames, th,
          claimed, calls, draws, before, rendered, cleared, ri, pt>>

outputVars == <<xres, yres, passes, beauty, normal, albedo>>
schedVars == <<bsz, num_threads, scene, phase, num_passes, next_bucket, frame,
               base_pass, frames, th, claimed, calls, draws, before>>
histVars == <<rendered, cleared>>

\* ------------------------------------------------------------------------
\* Sampler: RadicalInverse, wrap6i
\* ------------------------------------------------------------------------
\* The pass indices RadicalInverse is tried on: the small ones, the largest
\* int, and for each base indices around the first power of the base whose
\* digit reversal no longer fits an int.
LargeIndices ==
    { INT_MAX, 1073741824,
      1162261466, 1162261467, 1162261469,
      1220703125, 1220703127,
      1977326743, 1977326745,
      214358881, 214358902,
      815730721, 815730724 }
Indices == (0 .. MaxIndex) \cup LargeIndices

\* reversedDigits * base + digit in the source's 32-bit int.  The product is
\* formed limb by limb so that no intermediate value leaves 32 bits; wrapped
\* is the two's complement result and overflow tells whether the exact result
\* left the range of int (signed overflow: undefined behaviour in C++).
MulAdd32(r, base, digit) ==
    LET hi    == r \div Limb
        lo    == r % Limb
        t     == lo * base + digit
        h     == hi * base + (t \div Limb)
        h16   == h % Limb
        sh    == IF h16 >= HalfLimb THEN h16 - Limb ELSE h16
    IN  [wrapped |-> sh * Limb + (t % Limb),
         overflow |-> (h < -HalfLimb) \/ (h >= HalfLimb)]

\* One iteration of the while (a) loop.
RadicalStep(s) ==
    LET next  == s.a \div s.base
        digit == s.a - s.base * next
        m     == MulAdd32(s.reversedDigits, s.base, digit)
    IN  [s EXCEPT !.reversedDigits = m.wrapped,
                  !.k = @ + 1,
                  !.a = next,
                  !.overflow = @ \/ m.overflow]

RadicalStart(a, base) ==
    [pc |-> "loop", a0 |-> a, a |-> a, base |-> base,
     reversedDigits |-> 0, k |-> 0, overflow |-> FALSE]

RECURSIVE RadicalRun(_)
RadicalRun(s) == IF s.a # 0 THEN RadicalRun(RadicalStep(s)) ELSE s

\* base^k where it fits an int, else INT_MAX (PowFits tells which).
RECURSIVE PowSat(_, _)
PowSat(base, k) ==
    IF k = 0 THEN 1
    ELSE LET p == PowSat(base, k - 1)
         IN  IF p > INT_MAX \div base THEN INT_MAX ELSE p * base

RECURSIVE PowFits(_, _)
PowFits(base, k) ==
    IF k = 0 THEN TRUE
    ELSE PowFits(base, k - 1) /\ PowSat(base, k - 1) <= INT_MAX \div base

\* r < base^k, for an int r
BelowPow(r, base, k) == (~PowFits(base, k)) \/ r < PowSat(base, k)

\* The value returned: min(reversedDigits * invBaseN, DoubleOneMinusEpsilon)
\* with invBaseN = base^-k, kept as the exact fraction num / base^k; clamped
\* tells that the min chose DoubleOneMinusEpsilon.
RadicalValue(s) ==
    [num |-> s.reversedDigits, base |-> s.base, k |-> s.k,
     clamped |-> ~BelowPow(s.reversedDigits, s.base, s.k)]

RadicalInverse(a, base) == RadicalValue(RadicalRun(RadicalStart(a, base)))

\* v >= 0 and v < 1 for a returned value v
ValueNonNegative(v) == v.clamped \/ v.num >= 0
ValueBelowOne(v) == v.clamped \/ BelowPow(v.num, v.base, v.k)

\* Mutant of wrap6i: the cursor wraps one position early.
wrap5i(v) == [o |-> v, v |-> IF v + 1 < 5 THEN v + 1 ELSE 0]

wrap6i(v) == [o |-> v, v |-> IF v + 1 < 6 THEN v + 1 ELSE 0]

RiIdle == [pc |-> "idle"]

\* A call RadicalInverse(a, base) is entered.
RadicalCall ==
    /\ ri.pc = "idle"
    /\ \E a \in Indices, i \in 1 .. num_primes :
          ri' = RadicalStart(a, primes[i])

\* One iteration of the loop.  When the 32-bit result overflows the build
\* either wraps (the usual code) or traps (-ftrapv, sanitizers).
RadicalLoop ==
    /\ ri.pc = "loop"
    /\ ri.a # 0
    /\ LET n == RadicalStep(ri)
       IN  \/ ri' = n
           \/ /\ n.overflow
              /\ ~ri.overflow
              /\ ri' = [n EXCEPT !.pc = "trap"]

\* The loop ends and the value is returned.
RadicalReturn ==
    /\ ri.pc = "loop"
    /\ ri.a = 0
    /\ ri' = [ri EXCEPT !.pc = "done"]

\* ------------------------------------------------------------------------
\* render: one sample of one pixel
\* ------------------------------------------------------------------------
\* The argument of hash() in render: frame * xres * yres + pixel_idx.  The
\* hash itself is a fixed function of this argument, so hash_random is
\* represented by the argument it is computed from.
HashArg(fr, x, y) == fr * xres * yres + (y * xres + x)

\* RadicalInverse(pass, primes[i]) for the pass indices the scheduler can
\* pass to render, tabulated once.
RadicalTable ==
    [a \in 0 .. (2 * MaxPasses + 1) |->
        [i \in 1 .. num_primes |-> RadicalInverse(a, primes[i])]]

\* wrap1r((real)RadicalInverse(pass, primes[wrap6i(dim)]), hash_random):
\* the sample drawn at dimension cursor d, as the pair it is computed from.
Sample(pass, d, h) ==
    [u |-> RadicalTable[pass][wrap6i(d).o + 1], hash |-> h]

\* The scenes tried.  "empty": no geometry, every ray misses.  "sphere": one
\* convex diffuse non-Fresnel object over the left third of the frame, lit by
\* the point light; a primary ray through a pixel of that third hits it, the
\* bounce ray leaves it and misses, and every other primary ray misses.
Scenes == {"empty", "sphere"}

\* scene.nearestIntersection for the primary ray through pixel (x, y)
PrimaryHit(sc, x, y) == sc = "sphere" /\ 3 * x < xres

\* The animations tried, as <<frame, frames>>: a still (no time jitter
\* draw) and frame 1 of 2.
Animations == { <<0, 0>>, <<1, 2>> }

\* Radiance carried by one sample, in abstract units: a fixed function of the
\* sample, here of the parity of its reversed digits.
Quantum(smp) == 1 + (smp.u.num % 2)

\* Mutant of DimStart: the cursor is kept from the thread's previous call.
DimKeep(old) == old

\* The dimension cursor a call of render starts with: int dim = 0.
DimStart(old) == 0

\* render, lines 120-315: the camera draws and the path loop for the scene,
\* up to the three accumulations.  The result holds the values to add to the
\* three channels, the cursor after the last draw and the draws made.
RenderPath(x, y, fr, pass, frs, sc, dim0) ==
    LET h   == HashArg(fr, x, y)
        d0  == DimStart(dim0)
        sx  == Sample(pass, d0, h)
        d1  == wrap6i(d0).v
        sy  == Sample(pass, d1, h)
        d2  == wrap6i(d1).v
        cam == IF frs <= 0 THEN <<sx, sy>> ELSE <<sx, sy, Sample(pass, d2, h)>>
        d3  == IF frs <= 0 THEN d2 ELSE wrap6i(d2).v
    IN  IF ~PrimaryHit(sc, x, y)
        THEN \* first intersection misses: contribution += throughput * sky
             [contribution |-> Quantum(sy), normal_out |-> 0, albedo_out |-> 0,
              dim |-> d3, draws |-> cam]
        ELSE \* hit at bounce 0, two reflection draws, then the bounce ray misses
             LET rx == Sample(pass, d3, h)
                 d4 == wrap6i(d3).v
                 ry == Sample(pass, d4, h)
                 d5 == wrap6i(d4).v
             IN  [contribution |-> 1 + Quantum(ry), normal_out |-> 1,
                  albedo_out |-> 2, dim |-> d5, draws |-> cam \o <<rx, ry>>]

\* ------------------------------------------------------------------------
\* render, lines 135-315 step by step: the camera draws and the path loop
\* ------------------------------------------------------------------------
max_bounces == 5

\* Colour channels, throughput and sampler values are exact fractions n/d in
\* lowest terms; d = 0 stands for the result of a division by zero.
RECURSIVE GCD(_, _)
GCD(a, b) == IF b = 0 THEN a ELSE GCD(b, a % b)

Frac(n, d) ==
    IF d = 0 THEN [n |-> 1, d |-> 0]
    ELSE LET g == GCD(n, d) IN [n |-> n \div g, d |-> d \div g]

Zero == Frac(0, 1)
One == Frac(1, 1)
FracMul(a, b) == Frac(a.n * b.n, a.d * b.d)
\* 1.0f / a
FracInv(a) == Frac(a.d, a.n)
FracLess(a, b) == a.n * b.d < b.n * a.d
\* std::max(a, b) is (a < b) ? b : a and std::min(a, b) is (b < a) ? b : a
FracMax(a, b) == IF FracLess(a, b) THEN b ELSE a
FracMin(a, b) == IF FracLess(b, a) THEN b ELSE a

\* vec3f: three channels
Grey(f) == <<f, f, f>>
Black == Grey(Zero)
White == Grey(One)
VecMul(a, b) == [i \in 1 .. 3 |-> FracMul(a[i], b[i])]

\* Line 270: max_albedo
MaxChannel(c) == FracMax(FracMax(c[1], c[2]), c[3])

\* Line 271: the threshold 1e-8f
ZeroAlbedoThreshold == Frac(1, 100000000)

\* Line 230: the albedo of a specular event, 0.95f in every channel
SpecularAlbedo == Grey(Frac(19, 20))

\* The materials a surface hit can return (mat of line 206): a black
\* diffuse surface, a black emissive surface with a Fresnel coat, a diffuse
\* surface reflecting half of one channel only, and a Fresnel-coated surface
\* whose albedo exceeds 1 in one channel.
Soot == [albedo |-> Black, emission |-> Black, use_fresnel |-> FALSE, r0 |-> Zero]
Lamp == [albedo |-> Black, emission |-> White, use_fresnel |-> TRUE, r0 |-> Frac(1, 25)]
Clay ==
    [albedo |-> <<Frac(1, 2), Zero, Zero>>, emission |-> Black,
     use_fresnel |-> FALSE, r0 |-> Zero]
Lacquer ==
    [albedo |-> <<Frac(1, 2), Frac(3, 2), Zero>>, emission |-> Black,
     use_fresnel |-> TRUE, r0 |-> Frac(1, 25)]

Materials == { Soot, Lamp, Clay, Lacquer }

\* The materials of the objects of a scene: none in the empty scene, the one
\* diffuse object of "sphere", the two coated materials of "showroom", all
\* four in "studio".
SceneMaterials(sc) ==
    IF sc = "studio" THEN Materials
    ELSE IF sc = "showroom" THEN { Lamp, Lacquer }
    ELSE IF sc = "sphere" THEN { Clay }
    ELSE {}

NoMaterial == [albedo |-> Black, emission |-> Black, use_fresnel |-> FALSE, r0 |-> Zero]

\* The values wrap1r(RadicalInverse(..), hash_random) takes here: the
\* smallest one and one close to 1.
SampleValues == { Zero, Frac(99, 100) }

\* Lines 223-226: fresnel = r0 + (1 - r0) * p1^5 at normal incidence
\* (p1 = 0) and at grazing incidence (p1 = 1).
Fresnel(r0, grazing) == IF grazing THEN One ELSE r0

\* Lines 191-195: the sky colour, one abstract unit in every channel.
Sky == White
\* Line 253: n_dot_l / (light_ln2 * light_len) * 720 for the lit points tried.
LightFalloff == Frac(2, 1)

\* Mutant of refl_colour: the reflected light is not weighted by the albedo.
refl_colour_unweighted(alb, falloff) == Grey(falloff)

\* Line 253: refl_colour
refl_colour(alb, falloff) == VecMul(alb, Grey(falloff))

\* The value of a sampler local that is not in scope
NoSample == [n |-> 0, d |-> 0]

\* The locals of render at its first statement, with the frames argument
\* and the content d of the stack slot of dim.
PathStart(frs, d) ==
    [pc |-> "enter", frames |-> frs, dim |-> d, bounce |-> 0,
     throughput |-> White, contribution |-> << >>,
     normal_out |-> Black, albedo_out |-> Black,
     mat |-> NoMaterial, sample_specular |-> FALSE, albedo |-> Black,
     rr_u |-> NoSample, draws |-> << >>, rays |-> << >>, ops |-> << >>,
     rr |-> << >>, term |-> "none"]

PtIdle == [PathStart(0, 0) EXCEPT !.pc = "idle"]

\* RadicalInverse(pass, primes[wrap6i(dim)]): one sampler draw.  The draw is
\* logged with the cursor value used, the prime selected, the local it
\* initialises and the number of rays traced so far (the hit it belongs to).
Draw(p, use) ==
    LET w == wrap6i(p.dim)
    IN  [p EXCEPT !.dim = w.v,
                  !.draws = Append(@, [dim |-> w.o,
                                       prime |-> IF w.o + 1 \in DOMAIN primes
                                                 THEN primes[w.o + 1] ELSE 0,
                                       use |-> use, hit |-> Len(p.rays)])]

\* contribution += value, logged with the hit it is added at
AddTerm(p, kind, value) ==
    [p EXCEPT !.contribution =
        Append(@, [kind |-> kind, hit |-> Len(p.rays), value |-> value])]

\* Lines 135-182: dim = 0, the two pixel jitter draws, the time jitter draw
\* when frames > 0, and the initial path state.  Here and below each local
\* is bound to its value in turn, in the order the source assigns it.
RenderEnter ==
    /\ pt.pc = "idle"
    /\ \E an \in Animations :
       \E p0 \in { PathStart(an[2], DimStart(pt.dim)) } :
       \E p1 \in { Draw(p0, "pixel_sample_x") } :
       \E p2 \in { Draw(p1, "pixel_sample_y") } :
       \E p3 \in { IF an[2] <= 0 THEN p2 ELSE Draw(p2, "time") } :
          pt' = [p3 EXCEPT !.pc = "intersect"]

\* Lines 186-213: the intersection test.  A miss adds the sky and leaves
\* the loop; a hit returns a material and sets the output channels at
\* bounce 0.
Intersect ==
    /\ pt.pc = "intersect"
    /\ \E p \in { [pt EXCEPT !.rays = Append(@, pt.bounce), !.rr_u = NoSample] } :
          \/ pt' = [AddTerm(p, "sky", VecMul(p.throughput, Sky))
                       EXCEPT !.term = "Sky", !.pc = "done"]
          \/ \E m \in SceneMaterials(scene) :
                pt' = [p EXCEPT !.mat = m, !.pc = "shade",
                                !.normal_out = IF p.bounce = 0 THEN Grey(Frac(1, 2)) ELSE @,
                                !.albedo_out = IF p.bounce = 0 THEN m.albedo ELSE @]

\* Lines 215-264: emission, the Fresnel choice between a specular and a
\* diffuse event, and direct lighting for a diffuse event at a lit point.
Shade ==
    /\ pt.pc = "shade"
    /\ \E mat_u \in SampleValues, grazing \in BOOLEAN, lit \in BOOLEAN :
       \E m \in { pt.mat } :
       \E e \in { AddTerm(pt, "emission", VecMul(pt.throughput, m.emission)) } :
       \E f \in { IF m.use_fresnel THEN Draw(e, "mat_u") ELSE e } :
       \E spec \in { m.use_fresnel /\ FracLess(mat_u, Fresnel(m.r0, grazing)) } :
       \E alb \in { IF spec THEN SpecularAlbedo ELSE m.albedo } :
       \E g \in { IF ~spec /\ lit
                  THEN AddTerm(f, "direct",
                               VecMul(f.throughput, refl_colour(alb, LightFalloff)))
                  ELSE f } :
          pt' = [g EXCEPT !.sample_specular = spec, !.albedo = alb,
                          !.pc = "bounce"]

\* Mutant of ExceedsMaxBounces: one bounce more is allowed.
ExceedsMaxBouncesLate(b) == b > max_bounces + 1

\* Line 266: ++bounce > max_bounces, on the incremented count
ExceedsMaxBounces(b) == b > max_bounces

\* Mutant of RouletteApplies: roulette starts one bounce early.
RouletteAppliesEarly(b) == b >= 2

\* Line 275: bounce > 2
RouletteApplies(b) == b > 2

\* Mutant of BelowZeroThreshold: the zero-albedo test is missing.
BelowZeroThresholdNever(a) == FALSE

\* Line 271: max_albedo < 1e-8f
BelowZeroThreshold(a) == FracLess(a, ZeroAlbedoThreshold)

\* Line 278: rr_thresh = std::max(0.0f, std::min(1.0f, max_albedo))
Clamp01(a) == FracMax(Zero, FracMin(One, a))

\* throughput *= c, logged with the hit, the operation and its operand
Scale(p, op, by, c) ==
    [p EXCEPT !.throughput = VecMul(@, c),
              !.ops = Append(@, [op |-> op, hit |-> Len(p.rays), by |-> by,
                                 c |-> c])]

\* Lines 277-278: the roulette draw into the local rr_u, logged with the
\* threshold it is compared with and the albedo the threshold comes from.
Roulette(p, rr_u, rr_thresh, max_albedo) ==
    [Draw(p, "rr_u") EXCEPT !.rr_u = rr_u,
                            !.rr = Append(@, [hit |-> Len(p.rays),
                                              rr_thresh |-> rr_thresh,
                                              max_albedo |-> max_albedo])]

\* Lines 266-313: the bounce limit, the zero-albedo test, Russian roulette,
\* the reflection draws of a diffuse event and the throughput update.
Bounce ==
    /\ pt.pc = "bounce"
    /\ \E p \in { [pt EXCEPT !.bounce = @ + 1] } :
       \E max_albedo \in { MaxChannel(p.albedo) } :
          IF ExceedsMaxBounces(p.bounce)
          THEN pt' = [p EXCEPT !.term = "MaxBounces", !.pc = "done"]
          ELSE IF BelowZeroThreshold(max_albedo)
          THEN pt' = [p EXCEPT !.term = "ZeroAlbedo", !.pc = "done"]
          ELSE \E rr_u \in SampleValues :
               \E rr_thresh \in { Clamp01(max_albedo) } :
               \E r \in { IF RouletteApplies(p.bounce)
                          THEN Roulette(p, rr_u, rr_thresh, max_albedo)
                          ELSE p } :
                  IF RouletteApplies(p.bounce) /\ FracLess(rr_thresh, rr_u)
                  THEN pt' = [r EXCEPT !.term = "RouletteKill", !.pc = "done"]
                  ELSE \E s \in { IF RouletteApplies(p.bounce)
                                  THEN Scale(r, "div", rr_thresh, Grey(FracInv(rr_thresh)))
                                  ELSE r } :
                       \E dx \in { IF s.sample_specular THEN s
                                   ELSE Draw(s, "refl_sample_x") } :
                       \E dy \in { IF s.sample_specular THEN dx
                                   ELSE Draw(dx, "refl_sample_y") } :
                       \E n \in { Scale(dy, "mul", max_albedo, dy.albedo) } :
                          pt' = [n EXCEPT !.pc = "intersect"]

\* Line 319: render returns; its locals die, the stack slot of dim keeps
\* the last cursor value.
RenderLeave ==
    /\ pt.pc = "done"
    /\ pt' = [PtIdle EXCEPT !.dim = pt.dim]

\* ------------------------------------------------------------------------
\* renderThreadFunction: the bucket scheduler
\* ------------------------------------------------------------------------
Threads == 1 .. num_threads
Pixels == 0 .. (xres * yres - 1)

\* Mutant of x_buckets: the bucket count rounded down instead of up.
x_buckets_floor == xres \div bsz

x_buckets == (xres + bsz - 1) \div bsz
y_buckets == (yres + bsz - 1) \div bsz
num_buckets == x_buckets * y_buckets
Min(a, b) == IF a < b THEN a ELSE b

sub_pass(bucket) == bucket \div num_buckets
bucket_p(bucket) == bucket - num_buckets * sub_pass(bucket)
\* Mutant of bucket_y: the row is taken with the number of rows as divisor.
bucket_y_by_rows(bucket) == bucket_p(bucket) \div y_buckets

bucket_y(bucket) == bucket_p(bucket) \div x_buckets
bucket_x(bucket) == bucket_p(bucket) - x_buckets * bucket_y(bucket)
\* Mutant of bucket_x0: the stride between buckets is one pixel short.
bucket_x0_overlap(bucket) == bucket_x(bucket) * (bsz - 1)

bucket_x0(bucket) == bucket_x(bucket) * bsz
\* Mutant of bucket_x1: the right edge is not clipped to the image.
bucket_x1_unclipped(bucket) == bucket_x0(bucket) + bsz

bucket_x1(bucket) == Min(bucket_x0(bucket) + bsz, xres)
bucket_y0(bucket) == bucket_y(bucket) * bsz
bucket_y1(bucket) == Min(bucket_y0(bucket) + bsz, yres)

\* Mutants of fetch_add: the increment is lost; the counter advances by two.
fetch_add_stuck(v) == v
fetch_add_two(v) == v + 2

\* next_bucket.fetch_add(1): the value stored back
fetch_add(v) == v + 1

\* Mutant of pixel_idx: the index is taken column-major.
pixel_idx_transposed(x, y) == x * yres + y

\* pixel_idx of render
pixel_idx(x, y) == y * xres + x

ThreadIdle ==
    [pc |-> "idle", bucket |-> 0, x |-> 0, y |-> 0, dim |-> 0,
     contribution |-> 0, normal_out |-> 0, albedo_out |-> 0, ch |-> 0, tmp |-> 0]

\* The position of the two for loops after render(x, y) returned.
LoopNext(t) ==
    IF t.x + 1 < bucket_x1(t.bucket)
    THEN [t EXCEPT !.pc = "render", !.x = @ + 1]
    ELSE IF t.y + 1 < bucket_y1(t.bucket)
         THEN [t EXCEPT !.pc = "render", !.x = bucket_x0(t.bucket), !.y = @ + 1]
         ELSE [t EXCEPT !.pc = "claim", !.x = 0, !.y = 0]

\* The position of the two for loops when a bucket has been claimed.
LoopFirst(t, bucket) ==
    IF bucket_y0(bucket) < bucket_y1(bucket) /\ bucket_x0(bucket) < bucket_x1(bucket)
    THEN [t EXCEPT !.pc = "render", !.bucket = bucket,
                   !.x = bucket_x0(bucket), !.y = bucket_y0(bucket)]
    ELSE [t EXCEPT !.pc = "claim", !.bucket = bucket]

\* Mutant of PastLastUnit: > in place of >=.
PastLastUnitStrict(bucket) == bucket > num_buckets * num_passes

\* Line 344: the test that ends the claim loop
PastLastUnit(bucket) == bucket >= num_buckets * num_passes

\* Lines 342-353: claim the next unit atomically; leave the loop when the
\* index claimed is past the last unit, else decode it and enter the pixel loops.
Claim(w) ==
    /\ phase = "running"
    /\ th[w].pc = "claim"
    /\ LET bucket == next_bucket
       IN  /\ next_bucket' = fetch_add(next_bucket)
           /\ claimed' = Append(claimed, bucket)
           /\ IF PastLastUnit(bucket)
              THEN th' = [th EXCEPT ![w] = [@ EXCEPT !.pc = "exit", !.bucket = bucket]]
              ELSE th' = [th EXCEPT ![w] = LoopFirst(@, bucket)]
    /\ UNCHANGED <<outputVars, bsz, num_threads, scene, phase, num_passes,
                   frame, base_pass, frames, calls, draws, before, histVars, ri, pt>>

\* Line 357 and render lines 120-315: the call of render for the current
\* pixel, up to the accumulation.  Everything here is local to the thread.
Render(w) ==
    /\ phase = "running"
    /\ th[w].pc = "render"
    /\ LET t    == th[w]
           pass == base_pass + sub_pass(t.bucket)
           r    == RenderPath(t.x, t.y, frame, pass, frames, scene, t.dim)
       IN  /\ th' = [th EXCEPT ![w] =
                       [@ EXCEPT !.pc = "load", !.ch = 1, !.dim = r.dim,
                                 !.contribution = r.contribution,
                                 !.normal_out = r.normal_out,
                                 !.albedo_out = r.albedo_out]]
           /\ calls' = calls (+) SetToBag({<<t.x, t.y, pass>>})
           /\ draws' = draws \cup
                 { <<t.x, t.y, pass, k, r.draws[k]>> : k \in 1 .. Len(r.draws) }
    /\ UNCHANGED <<outputVars, bsz, num_threads, scene, phase, num_passes,
                   next_bucket, frame, base_pass, frames, claimed, before,
                   histVars, ri, pt>>

\* The array a channel number names, and the value render adds to it.
Channel(ch) == IF ch = 1 THEN beauty ELSE IF ch = 2 THEN normal ELSE albedo
Addend(t) ==
    IF t.ch = 1 THEN t.contribution
    ELSE IF t.ch = 2 THEN t.normal_out ELSE t.albedo_out

\* Lines 316-318, first half of a '+=': read output.<channel>[pixel_idx].
Load(w) ==
    /\ phase = "running"
    /\ th[w].pc = "load"
    /\ LET t == th[w]
       IN  th' = [th EXCEPT ![w] =
                    [@ EXCEPT !.pc = "store",
                              !.tmp = Channel(t.ch)[pixel_idx(t.x, t.y)]]]
    /\ UNCHANGED <<outputVars, bsz, num_threads, scene, phase, num_passes,
                   next_bucket, frame, base_pass, frames, claimed, calls, draws,
                   before, histVars, ri, pt>>

\* The value a '+=' stores, from the value read and the addend.
Accumulate(old, add) == old + add

\* Lines 316-318, second half of a '+=': write the sum back.  After the
\* third channel render returns and the pixel loops advance.
Store(w) ==
    /\ phase = "running"
    /\ th[w].pc = "store"
    /\ LET t   == th[w]
           idx == pixel_idx(t.x, t.y)
           val == Accumulate(t.tmp, Addend(t))
       IN  /\ beauty' = IF t.ch = 1 THEN [beauty EXCEPT ![idx] = val] ELSE beauty
           /\ normal' = IF t.ch = 2 THEN [normal EXCEPT ![idx] = val] ELSE normal
           /\ albedo' = IF t.ch = 3 THEN [albedo EXCEPT ![idx] = val] ELSE albedo
           /\ th' = [th EXCEPT ![w] =
                       IF t.ch < 3
                       THEN [@ EXCEPT !.pc = "load", !.ch = @ + 1, !.tmp = 0]
                       ELSE LoopNext([@ EXCEPT !.ch = 0, !.tmp = 0,
                                               !.contribution = 0,
                                               !.normal_out = 0,
                                               !.albedo_out = 0])]
           /\ rendered' = IF t.ch = 3 THEN [rendered EXCEPT ![idx] = @ + 1]
                                       ELSE rendered
    /\ cleared' = FALSE
    /\ UNCHANGED <<xres, yres, passes, bsz, num_threads, scene, phase,
                   num_passes, next_bucket, frame, base_pass, frames, claimed,
                   calls, draws, before, ri, pt>>

\* ------------------------------------------------------------------------
\* RenderOutput::clear and the caller of renderThreadFunction
\* ------------------------------------------------------------------------
\* Mutant of MemsetRange: the byte count misses the factor yres.
MemsetFirstRow == 0 .. (xres - 1)

\* The entries a memset of sizeof(vec3f) * xres * yres bytes from &a[0] covers
MemsetRange == 0 .. (xres * yres - 1)
Memset0(a) == [i \in DOMAIN a |-> IF i \in MemsetRange THEN 0 ELSE a[i]]

\* Mutant of ClearedPasses: clear() leaves the pass counter alone.
StalePasses == passes

\* The value clear() gives the pass counter
ClearedPasses == 0

\* RenderOutput::clear(), called by the owner while no invocation runs.
clear ==
    /\ phase = "idle"
    /\ passes' = ClearedPasses
    /\ beauty' = Memset0(beauty)
    /\ normal' = Memset0(normal)
    /\ albedo' = Memset0(albedo)
    /\ rendered' = [i \in Pixels |-> 0]
    /\ cleared' = TRUE
    /\ UNCHANGED <<xres, yres, schedVars, ri, pt>>

\* The pass count output.passes holds after an invocation of n passes.
PassesAfter(p, n) == p + n

\* The render invocation entry point: a ThreadControl for np passes is
\* created and num_threads workers are started on it, with the buffer's
\* pass counter as the starting pass index.
Start ==
    /\ phase = "idle"
    /\ \E np \in 0 .. MaxPasses, an \in Animations :
          /\ passes + np <= MaxPasses
          /\ num_passes' = np
          /\ frame' = an[1]
          /\ frames' = an[2]
    /\ phase' = "running"
    /\ next_bucket' = 0
    /\ base_pass' = passes
    /\ th' = [w \in Threads |-> [ThreadIdle EXCEPT !.pc = "claim"]]
    /\ claimed' = << >>
    /\ calls' = EmptyBag
    /\ draws' = {}
    /\ before' = [beauty |-> beauty, normal |-> normal, albedo |-> albedo]
    /\ UNCHANGED <<outputVars, bsz, num_threads, scene, histVars, ri, pt>>

AllExited == \A w \in Threads : th[w].pc = "exit"

\* The entry point returns: every worker has been joined and the passes
\* rendered are counted into the buffer's pass counter.
Join ==
    /\ phase = "running"
    /\ AllExited
    /\ phase' = "idle"
    /\ passes' = PassesAfter(passes, num_passes)
    /\ th' = [w \in Threads |-> ThreadIdle]
    /\ UNCHANGED <<xres, yres, beauty, normal, albedo, bsz, num_threads, scene,
                   num_passes, next_bucket, frame, base_pass, frames, claimed,
                   calls, draws, before, histVars, ri, pt>>

\* ------------------------------------------------------------------------
\* Specifications
\* ------------------------------------------------------------------------
\* The state after RenderOutput(xres, yres): passes = 0 and three arrays of
\* xres * yres entries, whose content is whatever vec3f's default
\* constructor leaves: zero, or garbage (the value g everywhere here).
Constructed(xr, yr, g) ==
    /\ xres = xr
    /\ yres = yr
    /\ passes = 0
    /\ beauty = [i \in 0 .. (xr * yr - 1) |-> g]
    /\ normal = [i \in 0 .. (xr * yr - 1) |-> g]
    /\ albedo = [i \in 0 .. (xr * yr - 1) |-> g]

NoInvocation ==
    /\ phase = "idle"
    /\ num_passes = 0
    /\ next_bucket = 0
    /\ frame = 0
    /\ base_pass = 0
    /\ frames = 0
    /\ th = [w \in Threads |-> ThreadIdle]
    /\ claimed = << >>
    /\ calls = EmptyBag
    /\ draws = {}
    /\ before = [beauty |-> beauty, normal |-> normal, albedo |-> albedo]
    /\ rendered = [i \in Pixels |-> 0]
    /\ cleared = FALSE

\* The images and worker counts of the concurrent specification, as
\* <<xres, yres, number of workers>>.
Setups ==
    { <<1, 1, 1>>, <<1, 1, 2>>, <<1, 1, 3>>, <<2, 1, 2>>, <<3, 1, 2>>,
      <<1, 2, 2>>, <<2, 2, 1>>, <<3, 2, 1>>, <<3, 3, 1>> }

\* Several workers on a small image with the scaled bucket edge.
Init ==
    /\ \E su \in Setups, g \in {0, MaxGarbage} :
          /\ Constructed(su[1], su[2], g)
          /\ num_threads = su[3]
    /\ bsz = ScaledBucket
    /\ scene \in Scenes
    /\ NoInvocation
    /\ ri = RiIdle
    /\ pt = PtIdle

WorkerStep(w) == Claim(w) \/ Render(w) \/ Load(w) \/ Store(w)

\* The thread numbers of all setups
AllThreads == { su[3] : su \in Setups }
Worker(w) == w \in Threads /\ WorkerStep(w)

Next ==
    \/ clear
    \/ Start
    \/ Join
    \/ \E w \in Threads : WorkerStep(w)

Spec == Init /\ [][Next]_vars

\* One worker, the source's bucket edge of 32, images around that edge.
SingleResolutions == { <<1, 1>>, <<32, 1>>, <<33, 1>>, <<1, 33>>, <<33, 2>> }

InitSingle ==
    /\ \E r \in SingleResolutions, g \in {0, MaxGarbage} :
          Constructed(r[1], r[2], g)
    /\ bsz = bucket_size
    /\ num_threads = 1
    /\ scene \in Scenes
    /\ NoInvocation
    /\ ri = RiIdle
    /\ pt = PtIdle

SpecSingle == InitSingle /\ [][Next]_vars

\* The concurrent setups on a zero-initialised buffer and the empty scene,
\* with the scheduling the operating system gives a started thread: a worker
\* that can take a step eventually takes one.
InitFair ==
    /\ \E su \in Setups :
          /\ Constructed(su[1], su[2], 0)
          /\ num_threads = su[3]
    /\ bsz = ScaledBucket
    /\ scene = "empty"
    /\ NoInvocation
    /\ ri = RiIdle
    /\ pt = PtIdle

SpecFair == InitFair /\ [][Next]_vars /\ \A w \in AllThreads : WF_vars(Worker(w))

\* One worker on images of several buckets per row and per column, with the
\* scaled bucket edge, a zero-initialised buffer and the empty scene.
GridResolutions == { <<3, 1>>, <<1, 3>>, <<3, 3>>, <<4, 3>>, <<5, 3>>, <<3, 5>> }

InitGrid ==
    /\ \E r \in GridResolutions : Constructed(r[1], r[2], 0)
    /\ bsz = ScaledBucket
    /\ num_threads = 1
    /\ scene = "empty"
    /\ NoInvocation
    /\ ri = RiIdle
    /\ pt = PtIdle

SpecGrid == InitGrid /\ [][Next]_vars

\* Calls of RadicalInverse alone.
InitRadical ==
    /\ Constructed(1, 1, 0)
    /\ bsz = bucket_size
    /\ num_threads = 1
    /\ scene = "empty"
    /\ NoInvocation
    /\ ri = RiIdle
    /\ pt = PtIdle

NextRadical ==
    /\ (RadicalCall \/ RadicalLoop \/ RadicalReturn)
    /\ UNCHANGED <<outputVars, schedVars, histVars, pt>>

SpecRadical == InitRadical /\ [][NextRadical]_vars

\* Calls of render traced step by step, for every sequence of scene answers
\* and sampler values.
InitPath ==
    /\ Constructed(1, 1, 0)
    /\ bsz = bucket_size
    /\ num_threads = 1
    /\ scene = "studio"
    /\ NoInvocation
    /\ ri = RiIdle
    /\ pt = PtIdle

PathStep == Intersect \/ Shade \/ Bounce

NextPath ==
    /\ (RenderEnter \/ PathStep \/ RenderLeave)
    /\ UNCHANGED <<outputVars, schedVars, histVars, ri>>

SpecPath == InitPath /\ [][NextPath]_vars

\* The scenes of at most two materials, with the scheduling a running
\* thread has: the thread that entered render keeps executing it.
InitPathFair ==
    /\ Constructed(1, 1, 0)
    /\ bsz = bucket_size
    /\ num_threads = 1
    /\ scene \in {"empty", "sphere", "showroom"}
    /\ NoInvocation
    /\ ri = RiIdle
    /\ pt = PtIdle

SpecPathFair ==
    /\ InitPathFair
    /\ [][NextPath]_vars
    /\ WF_vars(PathStep /\ UNCHANGED <<outputVars, schedVars, histVars, ri>>)

\* ------------------------------------------------------------------------
\* Properties
\* ------------------------------------------------------------------------
num_units == num_buckets * num_passes
Working(w) == th[w].pc \in {"render", "load", "store"}
InAccumulation(w) == th[w].pc \in {"load", "store"}

\* The render calls an invocation owes: every pixel once per pass index
\* base_pass + s, s in 0 .. num_passes - 1.
ExpectedCalls ==
    { <<x, y, base_pass + s>> :
        x \in 0 .. (xres - 1), y \in 0 .. (yres - 1), s \in 0 .. (num_passes - 1) }

\* What pass `pass` adds to channel ch of pixel (x, y), from the inputs alone.
ExpectedAddend(x, y, pass, ch) ==
    LET r == RenderPath(x, y, frame, pass, frames, scene, 0)
    IN  IF ch = 1 THEN r.contribution
        ELSE IF ch = 2 THEN r.normal_out ELSE r.albedo_out

\* The sum of the first n per-sub-pass results of the invocation.
RECURSIVE ExpectedSum(_, _, _, _)
ExpectedSum(x, y, ch, n) ==
    IF n = 0 THEN 0
    ELSE ExpectedSum(x, y, ch, n - 1) + ExpectedAddend(x, y, base_pass + n - 1, ch)

\* Every entry of the three arrays is its value at the start of the
\* invocation plus the sum of the num_passes results for its pixel.
AllAccumulated ==
    \A i \in Pixels :
        LET x == i % xres
            y == i \div xres
        IN  /\ beauty[i] = before.beauty[i] + ExpectedSum(x, y, 1, num_passes)
            /\ normal[i] = before.normal[i] + ExpectedSum(x, y, 2, num_passes)
            /\ albedo[i] = before.albedo[i] + ExpectedSum(x, y, 3, num_passes)

\* C1 (SpecSingle): one worker run to completion with num_passes = N invokes
\* render exactly once for every pixel of the image and every pass index
\* base_pass + s, s in 0 .. N-1: at no time has a (pixel, pass) pair been
\* evaluated twice or a pair outside the image or the pass range been
\* evaluated, and once the worker has left its loop no pair is missing.
C1_WorkCoverage ==
    /\ \A e \in BagToSet(calls) : calls[e] = 1 /\ e \in ExpectedCalls
    /\ AllExited => BagToSet(calls) = ExpectedCalls

C1_Witness ==
    /\ AllExited
    /\ num_threads = 1
    /\ bsz = bucket_size
    /\ xres = 33
    /\ yres = 2
    /\ num_passes = 2

\* C2 (Spec): whatever the interleaving, no unit index is claimed twice, no
\* two workers work on the same unit, and once all workers have left their
\* loops every unit index 0 .. num_buckets*num_passes - 1 has been claimed and
\* every (pixel, pass) pair has been evaluated by render exactly once.
C2_ExactlyOnce ==
    /\ \A i, j \in 1 .. Len(claimed) : claimed[i] = claimed[j] => i = j
    /\ \A v, w \in Threads :
          (v # w /\ Working(v) /\ Working(w)) => th[v].bucket # th[w].bucket
    /\ AllExited =>
          /\ \A u \in 0 .. (num_units - 1) : \E i \in 1 .. Len(claimed) : claimed[i] = u
          /\ calls = SetToBag(ExpectedCalls)

C2_Witness ==
    /\ AllExited
    /\ num_threads = 2
    /\ num_units = 4
    /\ \A w \in Threads : th[w].bucket >= num_units

\* C3 (Spec), as claimed: no two workers are at the same time inside the
\* accumulation (the read-modify-write of lines 316-318) of the same pixel.
C3_DisjointWriters ==
    \A v, w \in Threads :
        (v # w /\ InAccumulation(v) /\ InAccumulation(w))
            => pixel_idx(th[v].x, th[v].y) # pixel_idx(th[w].x, th[w].y)

\* C4 (Spec), as claimed: after all workers of an invocation have left their
\* loops, every entry of every channel is its value before the invocation
\* plus the sum of the per-sub-pass results for its pixel.
C4_NoLostAccumulation == AllExited => AllAccumulated

\* C5 (Spec): the indices returned by successive claims are 0, 1, 2, ... in
\* this order across all workers, and the counter holds the number of claims
\* made: it never decreases and returns no index twice.
C5_ClaimOrder ==
    /\ next_bucket = Len(claimed)
    /\ \A i \in 1 .. Len(claimed) : claimed[i] = i - 1

C5_Witness ==
    /\ num_threads = 2
    /\ Len(claimed) >= 4
    /\ \A w \in Threads : Working(w)

\* C6 (SpecFair): a worker is outside its loop exactly when the index it
\* claimed is >= num_buckets*num_passes, it renders nothing for such an
\* index, and under weak fairness of the workers' steps every worker of a
\* started invocation eventually leaves its loop.
ExitSafety ==
    /\ \A w \in Threads :
          /\ th[w].pc = "exit" => th[w].bucket >= num_units
          /\ Working(w) => th[w].bucket < num_units
    /\ \A e \in BagToSet(calls) : e[3] < base_pass + num_passes

C6_Termination == [](ExitSafety) /\ ((phase = "running") ~> AllExited)

C6_Witness ==
    /\ AllExited
    /\ num_threads = 2
    /\ num_passes = 2
    /\ xres = 3
    /\ \A w \in Threads : th[w].bucket >= num_units
    /\ calls # EmptyBag

ExpectedSample(x, y, pass, k) ==
    [u |-> RadicalTable[pass][((k - 1) % num_primes) + 1],
     hash |-> frame * xres * yres + y * xres + x]

\* The number of draws render makes for pixel (x, y) in the scenes tried.
DrawCount(x, y) ==
    2 + (IF frames > 0 THEN 1 ELSE 0) + (IF PrimaryHit(scene, x, y) THEN 2 ELSE 0)

\* The draws an invocation owes: for every render call it owes, the draws
\* 1 .. DrawCount of that pixel.
ExpectedDraws ==
    { d \in { <<e[1], e[2], e[3], k, ExpectedSample(e[1], e[2], e[3], k)>> :
                e \in ExpectedCalls, k \in 1 .. 5 } :
        d[4] <= DrawCount(d[1], d[2]) }

\* C8 (Spec): every sampler draw made, by whichever worker and in whichever
\* order, is the value determined by (frame, pixel, pass, draw position);
\* once all workers have left their loops the draws made are the same set
\* for every number of workers and every interleaving; and a single worker
\* ends with the buffer determined by the inputs.
C8_Determinism ==
    /\ \A d \in draws : d[5] = ExpectedSample(d[1], d[2], d[3], d[4])
    /\ AllExited => draws = ExpectedDraws
    /\ (AllExited /\ num_threads = 1) => AllAccumulated

C8_Witness ==
    /\ AllExited
    /\ num_threads = 2
    /\ scene = "sphere"
    /\ frames > 0
    /\ num_passes = 2
    /\ xres = 3

\* C9 (Spec): right after clear() the pass counter is 0 and every entry of
\* the three arrays is zero; xres, yres and the three array lengths
\* (xres*yres each) never change.
ClearedState ==
    /\ passes = 0
    /\ \A i \in Pixels : beauty[i] = 0 /\ normal[i] = 0 /\ albedo[i] = 0

C9_ClearResets ==
    [][ /\ cleared' => ClearedState'
        /\ xres' = xres
        /\ yres' = yres
        /\ DOMAIN beauty' = 0 .. (xres * yres - 1)
        /\ DOMAIN normal' = 0 .. (xres * yres - 1)
        /\ DOMAIN albedo' = 0 .. (xres * yres - 1) ]_vars

C9_Witness ==
    /\ cleared
    /\ phase = "idle"
    /\ xres * yres > 1
    /\ num_passes = 2
    /\ Len(claimed) > num_threads
    /\ \E i \in Pixels : before.beauty[i] > 0

\* C10 (SpecRadical), as claimed: for every index a >= 0 of a 32-bit int and
\* every base of the prime table, reversedDigits stays within
\* 0 <= reversedDigits < base^k in 32-bit arithmetic, nothing overflows, and
\* the value returned is in [0, 1).
C10_RadicalInRange ==
    ri.pc \in {"loop", "done", "trap"} =>
        /\ ~ri.overflow
        /\ ri.pc # "trap"
        /\ 0 <= ri.reversedDigits
        /\ BelowPow(ri.reversedDigits, ri.base, ri.k)
        /\ ri.pc = "done" =>
              /\ ValueNonNegative(RadicalValue(ri))
              /\ ValueBelowOne(RadicalValue(ri))

\* The decoding of lines 348-351, and the triples it is claimed to map onto.
Decode(i) == <<sub_pass(i), bucket_y(i), bucket_x(i)>>
UnitTriples ==
    (0 .. (num_passes - 1)) \X (0 .. (y_buckets - 1)) \X (0 .. (x_buckets - 1))

\* C11 (SpecGrid): the decoding of the unit indices 0 .. num_buckets*num_passes - 1
\* into (sub_pass, bucket_y, bucket_x) is one-to-one and onto
\* {0..num_passes-1} x {0..y_buckets-1} x {0..x_buckets-1}; an index is the
\* row-major position sub_pass*num_buckets + bucket_y*x_buckets + bucket_x of
\* its triple, so a smaller index never has a larger sub-pass; and a worker
\* renders the pixels of the bucket its claimed index decodes to.
C11_UnitDecoding ==
    /\ \A i \in 0 .. (num_units - 1) :
          /\ Decode(i) \in UnitTriples
          /\ i = Decode(i)[1] * (x_buckets * y_buckets)
                   + Decode(i)[2] * x_buckets + Decode(i)[3]
    /\ \A i, j \in 0 .. (num_units - 1) :
          /\ Decode(i) = Decode(j) => i = j
          /\ i < j => Decode(i)[1] <= Decode(j)[1]
    /\ \A t \in UnitTriples : \E i \in 0 .. (num_units - 1) : Decode(i) = t
    /\ \A w \in Threads :
          Working(w) =>
              /\ th[w].x \div bsz = Decode(th[w].bucket)[3]
              /\ th[w].y \div bsz = Decode(th[w].bucket)[2]
              /\ InAccumulation(w) =>
                    <<th[w].x, th[w].y, base_pass + Decode(th[w].bucket)[1]>>
                        \in BagToSet(calls)

\* A worker is rendering the last unit of a 2x2 grid of buckets in the
\* second sub-pass.
C11_Witness ==
    /\ phase = "running"
    /\ x_buckets = 2
    /\ y_buckets = 2
    /\ num_passes = 2
    /\ \E w \in Threads :
          /\ Working(w)
          /\ th[w].bucket = 7
          /\ Decode(th[w].bucket) = <<1, 1, 1>>

\* The surface hits of the call so far: every ray traced found a surface,
\* except the last one of a path that left through the sky.
Hits == Len(pt.rays) - (IF pt.term = "Sky" THEN 1 ELSE 0)

\* C12 (SpecPathFair): whatever the scene answers and the sampler values,
\* a call of render that entered the path loop leaves it; the bounce count
\* is the number of surface hits processed, it never exceeds 6, the path is
\* terminated by the very step that makes it exceed max_bounces = 5, and
\* every ray is traced with a bounce count of at most 5.
PathBounded ==
    /\ pt.bounce <= max_bounces + 1
    /\ \A k \in 1 .. Len(pt.rays) : pt.rays[k] = k - 1 /\ pt.rays[k] <= max_bounces
    /\ pt.pc = "intersect" => pt.bounce = Hits
    /\ pt.pc \in {"shade", "bounce"} => pt.bounce + 1 = Hits
    /\ pt.pc = "done" => pt.bounce = Hits
    /\ pt.bounce > max_bounces => (pt.pc = "done" /\ pt.term = "MaxBounces")
    /\ pt.term = "MaxBounces" => pt.bounce = max_bounces + 1

C12_PathTerminates ==
    [](PathBounded) /\ ((pt.pc = "intersect") ~> (pt.pc = "done"))

\* A path that hit a surface six times and was cut by the bounce limit.
C12_Witness ==
    /\ pt.pc = "done"
    /\ pt.term = "MaxBounces"
    /\ pt.bounce = 6
    /\ Len(pt.rays) = 6

\* The positions of the draws of one use made at hit h.
DrawsAt(use, h) ==
    { k \in 1 .. Len(pt.draws) : pt.draws[k].use = use /\ pt.draws[k].hit = h }

\* The path was still alive when hit h reached the roulette step of line
\* 275: the bounce limit and the zero-albedo test of that hit have run and
\* neither ended the path.
PastEarlyExits(h) ==
    /\ h <= pt.bounce
    /\ ~(h = pt.bounce /\ pt.term \in {"MaxBounces", "ZeroAlbedo"})

\* clamp(a, 0, 1)
ClampExpected(a) ==
    IF FracLess(One, a) THEN One ELSE IF FracLess(a, Zero) THEN Zero ELSE a

\* The product of the factors of the first n throughput operations.
RECURSIVE Product(_, _)
Product(ops, n) ==
    IF n = 0 THEN White ELSE VecMul(Product(ops, n - 1), ops[n].c)

C14_DivisorPositive ==
    /\ \A i \in 1 .. Len(pt.ops) :
          pt.ops[i].op = "div" =>
              /\ pt.ops[i].by.n > 0
              /\ pt.ops[i].by.d > 0
              /\ pt.ops[i].by.n <= pt.ops[i].by.d
              /\ pt.ops[i].by.n * 100000000 >= pt.ops[i].by.d
              /\ \A ch \in 1 .. 3 : pt.ops[i].c[ch].d # 0
    /\ \A j \in 1 .. Len(pt.rr) :
          /\ pt.rr[j].max_albedo.n * 100000000 >= pt.rr[j].max_albedo.d
          /\ pt.rr[j].rr_thresh.n > 0
    /\ \A ch \in 1 .. 3 : pt.throughput[ch].d # 0
    /\ \A k \in 1 .. Len(pt.contribution) :
          \A ch \in 1 .. 3 : pt.contribution[k].value[ch].d # 0

\* A path whose throughput was divided by the threshold 1/2 of a surface of
\* albedo 1/2 and by the threshold 1 clamped from an albedo of 3/2.
C14_Witness ==
    /\ \E i \in 1 .. Len(pt.ops) :
          pt.ops[i].op = "div" /\ pt.ops[i].by = Frac(1, 2)
    /\ \E j \in 1 .. Len(pt.rr) :
          pt.rr[j].max_albedo = Frac(3, 2) /\ pt.rr[j].rr_thresh = One
    /\ pt.pc = "intersect"

\* The last surface hit has been shaded and its effective albedo (the
\* material's for a diffuse event, 0.95 for a specular one) is zero in every
\* channel.
ZeroAlbedoHit ==
    /\ pt.pc \in {"bounce", "done"}
    /\ pt.term # "Sky"
    /\ Hits >= 1
    /\ pt.albedo = Black

\* The positions of the contribution terms added at hit h.
TermsAt(h) == { k \in 1 .. Len(pt.contribution) : pt.contribution[k].hit = h }

\* C15 (SpecPath): a hit whose effective albedo is zero in every channel
\* ends the path (by the zero-albedo test, or by the bounce limit when it is
\* the sixth hit): no reflection value is drawn, the throughput is not
\* updated and no ray is traced after it; the terms added to the
\* contribution at that hit are the emission term throughput * emission and
\* terms that are zero, so with zero emission the hit adds nothing.
C15_ZeroAlbedoEnds ==
    /\ ZeroAlbedoHit =>
          LET h == Len(pt.rays)
          IN  /\ Cardinality({ k \in TermsAt(h) :
                                  pt.contribution[k].kind = "emission" }) = 1
              /\ \A k \in TermsAt(h) :
                    pt.contribution[k].value =
                        IF pt.contribution[k].kind = "emission"
                        THEN [ch \in 1 .. 3 |->
                                 Frac(pt.throughput[ch].n * pt.mat.emission[ch].n,
                                      pt.throughput[ch].d * pt.mat.emission[ch].d)]
                        ELSE Grey(Frac(0, 1))
              /\ pt.mat.emission = Grey(Frac(0, 1)) =>
                    \A k \in TermsAt(h) : pt.contribution[k].value = Grey(Frac(0, 1))
              /\ ~pt.sample_specular
              /\ pt.pc = "done" =>
                    /\ pt.term \in {"ZeroAlbedo", "MaxBounces"}
                    /\ pt.term = "MaxBounces" <=> h > max_bounces
                    /\ pt.bounce = h
              /\ DrawsAt("refl_sample_x", h) = {}
              /\ DrawsAt("refl_sample_y", h) = {}
              /\ DrawsAt("rr_u", h) = {}
              /\ \A i \in 1 .. Len(pt.ops) : pt.ops[i].hit < h
    /\ (pt.pc \in {"intersect", "shade"} /\ pt.bounce >= 1) =>
          pt.albedo # Grey(Frac(0, 1))

\* A path with a throughput below 1 that ended at its third hit on the black
\* emissive surface, at a lit point, with a diffuse event.
C15_Witness ==
    /\ pt.pc = "done"
    /\ pt.term = "ZeroAlbedo"
    /\ pt.mat = Lamp
    /\ pt.bounce = 3
    /\ pt.throughput = <<Frac(1, 4), Zero, Zero>>
    /\ \E k \in TermsAt(3) : pt.contribution[k].kind = "direct"

\* C16 (SpecPath): in every call of render, for every path shape and for
\* frames <= 0 as for frames > 0, the dimension cursor starts at 0 and stays
\* in 0..5, the k-th draw of the call (k from 0: pixel jitter, time jitter
\* when frames > 0, Fresnel, roulette and reflection draws alike) is made at
\* cursor k mod 6 with the prime number k mod 6 of 2, 3, 5, 7, 11, 13, and
\* wrap6i returns the old cursor and advances it by one modulo 6.
C16_DimensionCycle ==
    /\ pt.dim \in 0 .. 5
    /\ pt.pc # "idle" => pt.dim = Len(pt.draws) % 6
    /\ \A k \in 1 .. Len(pt.draws) :
          /\ pt.draws[k].dim = (k - 1) % 6
          /\ pt.draws[k].prime = <<2, 3, 5, 7, 11, 13>>[((k - 1) % 6) + 1]
    /\ pt.pc # "idle" =>
          /\ Len(pt.draws) >= 2
          /\ pt.draws[1].use = "pixel_sample_x"
          /\ pt.draws[2].use = "pixel_sample_y"
          /\ pt.frames > 0 => (Len(pt.draws) >= 3 /\ pt.draws[3].use = "time")
          /\ \A k \in 1 .. Len(pt.draws) :
                pt.draws[k].use = "time" => (k = 3 /\ pt.frames > 0)
    /\ \A v \in 0 .. 5 : wrap6i(v).o = v /\ wrap6i(v).v = (v + 1) % 6

\* A still (frames <= 0, no time jitter draw) whose path made every kind of
\* draw and went round the six primes more than twice.
C16_Witness ==
    /\ pt.frames <= 0
    /\ Len(pt.draws) > 12
    /\ \E h \in 1 .. pt.bounce :
          DrawsAt("mat_u", h) # {} /\ DrawsAt("rr_u", h) # {}
             /\ DrawsAt("refl_sample_y", h) # {}

\* The pixel indices unit i covers: the ranges of the loops of lines 355-356.
UnitPixels(i) ==
    { y * xres + x : x \in bucket_x0(i) .. (bucket_x1(i) - 1),
                     y \in bucket_y0(i) .. (bucket_y1(i) - 1) }

\* C17 (Spec): two distinct units of the same sub-pass cover disjoint
\* pixel sets; so whenever two workers are inside the accumulation of the
\* same pixel at the same time their units belong to different sub-passes,
\* and in an invocation with num_passes = 1 no two workers are ever inside
\* the accumulation of the same pixel.
C17_SameSubPassDisjoint ==
    /\ \A i, j \in 0 .. (num_units - 1) :
          (i # j /\ i \div (x_buckets * y_buckets) = j \div (x_buckets * y_buckets))
              => UnitPixels(i) \cap UnitPixels(j) = {}
    /\ \A v, w \in Threads :
          (v # w /\ InAccumulation(v) /\ InAccumulation(w)
                 /\ th[v].y * xres + th[v].x = th[w].y * xres + th[w].x)
              => /\ th[v].bucket \div (x_buckets * y_buckets)
                       # th[w].bucket \div (x_buckets * y_buckets)
                 /\ num_passes > 1

\* Two workers accumulate at the same time, in two units of the same
\* sub-pass, during an invocation of one pass.
C17_Witness ==
    /\ num_passes = 1
    /\ num_threads = 2
    /\ InAccumulation(1)
    /\ InAccumulation(2)
    /\ th[1].bucket # th[2].bucket
    /\ th[1].bucket \div (x_buckets * y_buckets) = th[2].bucket \div (x_buckets * y_buckets)

\* C18 (SpecSingle): with the source's bucket edge of 32 and image sizes
\* below, at and above it, every unit index below num_buckets*num_passes
\* decodes to a non-empty pixel range inside the image, every call of render
\* has 0 <= x < xres and 0 <= y < yres, and the index y*xres + x it
\* accumulates at is an index of each of the three arrays.
C18_PixelInBounds ==
    /\ \A i \in 0 .. (num_units - 1) :
          /\ 0 <= bucket_x0(i) /\ bucket_x0(i) < bucket_x1(i) /\ bucket_x1(i) <= xres
          /\ 0 <= bucket_y0(i) /\ bucket_y0(i) < bucket_y1(i) /\ bucket_y1(i) <= yres
    /\ \A w \in Threads :
          Working(w) =>
              /\ th[w].bucket \in 0 .. (num_units - 1)
              /\ 0 <= th[w].x /\ th[w].x < xres
              /\ 0 <= th[w].y /\ th[w].y < yres
              /\ th[w].y * xres + th[w].x \in 0 .. (xres * yres - 1)
              /\ pixel_idx(th[w].x, th[w].y) \in
                    (DOMAIN beauty) \cap (DOMAIN normal) \cap (DOMAIN albedo)
    /\ \A e \in BagToSet(calls) :
          0 <= e[1] /\ e[1] < xres /\ 0 <= e[2] /\ e[2] < yres

\* The worker accumulates at the last pixel of a 33x2 image, in the clipped
\* second bucket of the second sub-pass.
C18_Witness ==
    /\ bsz = bucket_size
    /\ xres = 33
    /\ yres = 2
    /\ InAccumulation(1)
    /\ th[1].bucket = 3
    /\ th[1].x = 32
    /\ th[1].y = 1
    /\ pixel_idx(th[1].x, th[1].y) = 65

\* Worker w takes a step of a call of render.
RenderStepOf(w) ==
    /\ th[w].pc \in {"render", "load", "store"}
    /\ th'[w] # th[w]

\* The entries of array a other than entry i are left as they are.
OnlyEntry(a, i) ==
    /\ DOMAIN a' = DOMAIN a
    /\ \A j \in DOMAIN a : j # i => a'[j] = a[j]

\* C19 (Spec): every step of a call render(x, y, ...) leaves xres, yres,
\* the pass counter, the shared unit counter and every entry of the three
\* arrays other than entry y*xres + x unchanged; the path evaluation and the
\* reads write nothing; and the call writes entry y*xres + x of beauty, then
\* of normal, then of albedo, once each, and returns.
C19_RenderFrame ==
    [][ \A w \in Threads :
          RenderStepOf(w) =>
              LET t == th[w]
                  i == t.y * xres + t.x
              IN  /\ xres' = xres /\ yres' = yres
                  /\ passes' = passes
                  /\ next_bucket' = next_bucket
                  /\ OnlyEntry(beauty, i) /\ OnlyEntry(normal, i) /\ OnlyEntry(albedo, i)
                  /\ t.pc = "render" =>
                        /\ th'[w].pc = "load" /\ th'[w].ch = 1
                        /\ beauty' = beauty /\ normal' = normal /\ albedo' = albedo
                  /\ t.pc = "load" =>
                        /\ th'[w].pc = "store" /\ th'[w].ch = t.ch
                        /\ beauty' = beauty /\ normal' = normal /\ albedo' = albedo
                  /\ t.pc = "store" =>
                        /\ t.ch \in 1 .. 3
                        /\ t.ch # 1 => beauty' = beauty
                        /\ t.ch # 2 => normal' = normal
                        /\ t.ch # 3 => albedo' = albedo
                        /\ t.ch = 1 => beauty'[i] = t.tmp + t.contribution
                        /\ t.ch = 2 => normal'[i] = t.tmp + t.normal_out
                        /\ t.ch = 3 => albedo'[i] = t.tmp + t.albedo_out
                        /\ t.ch < 3 => (th'[w].pc = "load" /\ th'[w].ch = t.ch + 1
                                          /\ th'[w].x = t.x /\ th'[w].y = t.y)
                        /\ t.ch = 3 => th'[w].pc \in {"render", "claim"} ]_vars

\* Worker 1 is about to make the third write of a call for pixel (0, 0) of
\* the sphere scene, with the first two written, while worker 2 is inside a
\* call for another pixel and a third pixel is untouched.
C19_Witness ==
    /\ num_threads = 2
    /\ xres = 3
    /\ num_passes = 1
    /\ scene = "sphere"
    /\ th[1].pc = "store"
    /\ th[1].ch = 3
    /\ th[1].x = 0
    /\ beauty[0] = before.beauty[0] + th[1].contribution
    /\ normal[0] = before.normal[0] + th[1].normal_out
    /\ th[1].normal_out > 0
    /\ InAccumulation(2)
    /\ th[2].x = 2
    /\ beauty[1] = before.beauty[1]

====
